---- MODULE Spec2Model ----
(***************************************************************************)
(* Time Machine monitoring checks (lancel00zz/TM_disk_mount_check).        *)
(*                                                                         *)
(*   Helloworld2TimeMachineLatestBackup  backup / local snapshot age       *)
(*   Helloworld2TimeMachineMount         mount presence by volume UUID     *)
(*   TimeMachineMountCheck               mount presence by mountpoint path *)
(*                                                                         *)
(* Text (command output, mountpoints, tags, messages) is a sequence of     *)
(* one-character strings, so that strip / split / regex search / strptime  *)
(* and the substring test of the mount table are computed as the code      *)
(* computes them.  The agent invokes one check at a time; pc is the        *)
(* position inside the running check() method.                             *)
(***************************************************************************)
EXTENDS Integers, Sequences, FiniteSets, TLC

VARIABLES
    pc,                      \* position in the running check ("idle" between runs)
    instance,                \* the instance mapping handed to check()
    heap,                    \* Python list objects: reference -> contents
    tags,                    \* local `tags`: a reference into heap
    emitted,                 \* gauge()/service_check() calls of the current invocation
    clock,                   \* wall clock up to the last point where the check can read it
    now,                     \* local `now` of the freshness check
    backup_cmd,              \* what `tmutil latestbackup` did in this invocation
    snapshot_cmd,            \* what `tmutil listlocalsnapshotdates /` did
    latest_backup_seconds,   \* local of Helloworld2TimeMachineLatestBackup.check
    latest_snapshot_seconds, \* local of Helloworld2TimeMachineLatestBackup.check
    volume_uuid,             \* local of Helloworld2TimeMachineMount.check
    diskutil_cmd,            \* what `diskutil info <uuid>` did
    mountpoint,              \* local of TimeMachineMountCheck.check
    path_exists,             \* local of TimeMachineMountCheck.check
    mount_cmd,               \* what `/sbin/mount -p` did
    is_mounted,              \* local of TimeMachineMountCheck.check
    mounted,                 \* local of both mount checks
    runs                     \* invocations the agent has started, counted up to MaxRuns

vars == <<pc, instance, heap, tags, emitted, clock, now, backup_cmd, snapshot_cmd,
          latest_backup_seconds, latest_snapshot_seconds, volume_uuid, diskutil_cmd,
          mountpoint, path_exists, mount_cmd, is_mounted, mounted, runs>>

-----------------------------------------------------------------------------
(* Bounds of the model *)

\* the clock starts at most this many seconds before the reference backup time
MaxSkew == 1

\* the clock starts at most this many seconds after the reference backup time
MaxAge == 1

\* the backup command takes at most this many seconds of wall-clock time
MaxCmdDelay == 1

\* successive invocations are counted up to this many
MaxRuns == 2

-----------------------------------------------------------------------------
(* Text *)

NoValue == <<"<none>">>

DigitChars == <<"0", "1", "2", "3", "4", "5", "6", "7", "8", "9">>

IsDigit(c) == \E i \in 1..Len(DigitChars) : DigitChars[i] = c

DigitValue(c) == (CHOOSE i \in 1..Len(DigitChars) : DigitChars[i] = c) - 1

\* int() of a run of decimal digits
RECURSIVE ToInt(_)
ToInt(s) == IF s = <<>> THEN 0
            ELSE 10 * ToInt(SubSeq(s, 1, Len(s) - 1)) + DigitValue(s[Len(s)])

\* str.strip() / str.splitlines() whitespace that occurs in the modelled outputs
IsSpace(c) == c \in {" ", "\n", "\t", "\r"}

RECURSIVE LStrip(_)
LStrip(s) == IF s # <<>> /\ IsSpace(Head(s)) THEN LStrip(Tail(s)) ELSE s

RECURSIVE RStrip(_)
RStrip(s) == IF s # <<>> /\ IsSpace(s[Len(s)]) THEN RStrip(SubSeq(s, 1, Len(s) - 1)) ELSE s

Strip(s) == RStrip(LStrip(s))

\* s.split(sep) for a one-character separator: always at least one piece
RECURSIVE Split(_, _)
Split(s, sep) ==
    IF \A i \in 1..Len(s) : s[i] # sep THEN <<s>>
    ELSE LET i == CHOOSE k \in 1..Len(s) : s[k] = sep /\ \A j \in 1..(k - 1) : s[j] # sep
         IN  <<SubSeq(s, 1, i - 1)>> \o Split(SubSeq(s, i + 1, Len(s)), sep)

\* s.splitlines(): like split("\n") but a final line break opens no empty line
SplitLines(s) ==
    IF s = <<>> THEN <<>>
    ELSE IF s[Len(s)] = "\n" THEN Split(SubSeq(s, 1, Len(s) - 1), "\n")
         ELSE Split(s, "\n")

\* `needle in haystack`
Contains(haystack, needle) ==
    \E i \in 1..(Len(haystack) - Len(needle) + 1) :
        SubSeq(haystack, i, i + Len(needle) - 1) = needle

-----------------------------------------------------------------------------
(* The timestamp pattern and datetime.strptime *)

\* r"(\d{4}-\d{2}-\d{2}-\d{6})": "d" stands for \d
TM_TS_RE == <<"d", "d", "d", "d", "-", "d", "d", "-", "d", "d", "-",
              "d", "d", "d", "d", "d", "d">>

SNAPSHOT_TS_RE == <<"d", "d", "d", "d", "-", "d", "d", "-", "d", "d", "-",
                    "d", "d", "d", "d", "d", "d">>

\* the pattern matches s starting at position i
MatchesAt(re, s, i) ==
    /\ i >= 1
    /\ i + Len(re) - 1 <= Len(s)
    /\ \A k \in 1..Len(re) :
          IF re[k] = "d" THEN IsDigit(s[i + k - 1]) ELSE s[i + k - 1] = re[k]

\* re.match(s): the pattern at the very start of s (nothing said about the rest)
ReMatch(re, s) == MatchesAt(re, s, 1)

\* re.search(s): group(1) of the leftmost match, or NoValue when there is none
ReSearch(re, s) ==
    IF \E i \in 1..Len(s) : MatchesAt(re, s, i)
    THEN LET i == CHOOSE k \in 1..Len(s) :
                     MatchesAt(re, s, k) /\ \A j \in 1..(k - 1) : ~MatchesAt(re, s, j)
         IN  SubSeq(s, i, i + Len(re) - 1)
    ELSE NoValue

IsLeap(y) == y % 4 = 0 /\ (y % 100 # 0 \/ y % 400 = 0)

DaysInMonth(y, m) ==
    IF m = 2 THEN (IF IsLeap(y) THEN 29 ELSE 28)
    ELSE IF m \in {4, 6, 9, 11} THEN 30 ELSE 31

RECURSIVE DaysBeforeMonth(_, _)
DaysBeforeMonth(y, m) ==
    IF m = 1 THEN 0 ELSE DaysBeforeMonth(y, m - 1) + DaysInMonth(y, m - 1)

DaysBeforeYear(y) ==
    (y - 1) * 365 + ((y - 1) \div 4) - ((y - 1) \div 100) + ((y - 1) \div 400)

\* datetime.toordinal()
ToOrdinal(y, m, d) == DaysBeforeYear(y) + DaysBeforeMonth(y, m) + d

SecondsPerDay == 24 * 60 * 60

MicrosPerSecond == 1000 * 1000

\* A datetime is kept as [ord: proleptic ordinal day, sec: second of the day, us].
\* datetime.strptime(s, "%Y-%m-%d-%H%M%S"): [ok |-> TRUE, dt |-> ...] or the
\* ValueError it raises.
Strptime(s) ==
    IF ~(MatchesAt(TM_TS_RE, s, 1))
    THEN [ok |-> FALSE, dt |-> NoValue,
          err |-> <<"time data does not match format: ">> \o s]
    ELSE LET y  == ToInt(SubSeq(s, 1, 4))
             m  == ToInt(SubSeq(s, 6, 7))
             d  == ToInt(SubSeq(s, 9, 10))
             hh == ToInt(SubSeq(s, 12, 13))
             mm == ToInt(SubSeq(s, 14, 15))
             ss == ToInt(SubSeq(s, 16, 17))
         IN  IF m \notin 1..12 \/ d \notin 1..31
             THEN [ok |-> FALSE, dt |-> NoValue,
                   err |-> <<"time data does not match format: ">> \o s]
             ELSE IF hh > 23 \/ mm > 59 \/ ss > 61 \/ Len(s) > Len(TM_TS_RE)
             THEN [ok |-> FALSE, dt |-> NoValue,
                   err |-> <<"unconverted data remains: ">> \o s]
             ELSE IF y < 1
             THEN [ok |-> FALSE, dt |-> NoValue, err |-> <<"year 0 is out of range">>]
             ELSE IF d > DaysInMonth(y, m)
             THEN [ok |-> FALSE, dt |-> NoValue, err |-> <<"day is out of range for month">>]
             ELSE IF ss > 59
             THEN [ok |-> FALSE, dt |-> NoValue, err |-> <<"second must be in 0..59">>]
             ELSE [ok |-> TRUE,
                   dt |-> [ord |-> ToOrdinal(y, m, d),
                           sec |-> (hh * 60 + mm) * 60 + ss,
                           us  |-> 0],
                   err |-> <<>>]

\* datetime - datetime: a timedelta, normalised as Python normalises it
\* (0 <= seconds < 86400, 0 <= microseconds < 1000000, the sign is in days)
TimeDelta(a, b) ==
    LET us   == a.us - b.us
        s    == (a.sec - b.sec) + (IF us < 0 THEN -1 ELSE 0)
        days == (a.ord - b.ord) + (IF s < 0 THEN -1 ELSE 0)
    IN  [days         |-> days,
         seconds      |-> IF s < 0 THEN s + SecondsPerDay ELSE s,
         microseconds |-> IF us < 0 THEN us + MicrosPerSecond ELSE us]

\* int(td.total_seconds()): int() truncates toward zero
IntTotalSeconds(td) ==
    LET whole == td.days * SecondsPerDay + td.seconds
    IN  IF whole < 0 /\ td.microseconds > 0 THEN whole + 1 ELSE whole

\* the age without the clamp at zero
AgeSeconds_NoClamp(t_now, t_then) == IntTotalSeconds(TimeDelta(t_now, t_then))

\* lines 66-69 and 116-119: the age, clamped at zero
AgeSeconds(t_now, t_then) ==
    LET age_seconds == IntTotalSeconds(TimeDelta(t_now, t_then))
    IN  IF age_seconds < 0 THEN 0 ELSE age_seconds

\* the wall clock d seconds later
ClockAfter(t, d) ==
    LET s == t.sec + d
    IN  [ord |-> t.ord + (s \div SecondsPerDay), sec |-> s % SecondsPerDay, us |-> t.us]

-----------------------------------------------------------------------------
(* The environment: configurations, clock readings, command results *)

DefaultVolumeUuid == <<"A", "C", "0", "5", "F", "5", "8", "3", "-", "4", "B", "D", "F", "-", "4", "9", "8", "A", "-", "A", "B", "2", "D", "-", "A", "B", "5", "A", "3", "0", "7", "8", "6", "9", "E", "C">>

DefaultMountpoint == <<"/", "V", "o", "l", "u", "m", "e", "s", "/", "S", "E", "A", "G", "A", "T", "E", " ", "T", "I", "M", "E", " ", "M", "A", "C", "H", "I", "N", "E", " ", "5", "T">>

\* instance mappings: `keys` are the options that are present
Configurations ==
    { [keys |-> {}, tags |-> << >>, volume_uuid |-> NoValue, mountpoint |-> NoValue],
      [keys |-> {"tags"}, tags |-> << >>, volume_uuid |-> NoValue, mountpoint |-> NoValue],
      [keys |-> {"tags", "mountpoint"}, tags |-> <<<<"e", "n", "v", ":", "h", "o", "m", "e">>>>,
       volume_uuid |-> NoValue, mountpoint |-> <<"/", "V", "o", "l", "u", "m", "e", "s", "/", "T", "M">>],
      [keys |-> {"tags", "volume_uuid", "mountpoint"}, tags |-> <<<<"e", "n", "v", ":", "h", "o", "m", "e">>>>,
       volume_uuid |-> <<"1", "2", "3", "4", "-", "A", "B", "C", "D">>, mountpoint |-> <<"/", "V", "o", "l", "u", "m", "e", "s", "/", "T", "M">>] }

\* 2025-09-30 01:26:15, the backup time of the documented example output
RefTime == Strptime(<<"2", "0", "2", "5", "-", "0", "9", "-", "3", "0", "-", "0", "1", "2", "6", "1", "5">>).dt

\* fractions of a second (microseconds) the clock may show
SubSecond == {0, MicrosPerSecond \div 2}

ClockStarts ==
    { [ord |-> ClockAfter(RefTime, k).ord, sec |-> ClockAfter(RefTime, k).sec, us |-> u] :
        k \in (0 - MaxSkew)..MaxAge, u \in SubSecond }

\* subprocess.check_output raising: CalledProcessError or FileNotFoundError
CommandFaults ==
    { <<"Command returned non-zero exit status 1.">>,
      <<"[Errno 2] No such file or directory">> }

Completed(text) == [raised |-> FALSE, out |-> text, err |-> << >>]

Faulted(e) == [raised |-> TRUE, out |-> << >>, err |-> e]

NotRun == [raised |-> FALSE, out |-> NoValue, err |-> << >>]

\* stdout of `tmutil latestbackup`
BackupOutputs ==
    { <<"/", "V", "/", "A", "B", "C", "D", "/", "2", "0", "2", "5", "-", "0", "9", "-", "3", "0", "-", "0", "1", "2", "6", "1", "5", ".", "b", "a", "c", "k", "u", "p", "/", "2", "0", "2", "5", "-", "0", "9", "-", "3", "0", "-", "0", "1", "2", "6", "1", "5", ".", "b", "a", "c", "k", "u", "p", "\n">>,
      <<"/", "V", "/", "A", "B", "C", "D", "/", "2", "0", "2", "5", "-", "0", "9", "-", "2", "9", "-", "2", "3", "5", "9", "5", "9", ".", "b", "a", "c", "k", "u", "p", "/", "2", "0", "2", "5", "-", "0", "9", "-", "3", "0", "-", "0", "1", "2", "6", "1", "5", ".", "b", "a", "c", "k", "u", "p", "\n">>,
      <<"/", "V", "/", "A", "B", "C", "D", "/", "2", "0", "2", "5", "-", "0", "9", "-", "3", "0", "-", "0", "2", "2", "6", "1", "5", ".", "b", "a", "c", "k", "u", "p", "\n">>,
      <<"/", "V", "/", "A", "B", "C", "D", "/", "2", "0", "2", "5", "-", "1", "3", "-", "0", "1", "-", "0", "0", "0", "0", "0", "0", ".", "b", "a", "c", "k", "u", "p", "\n">>,
      <<"/", "V", "/", "A", "B", "C", "D", "/", "2", "0", "2", "5", "-", "0", "2", "-", "2", "9", "-", "0", "0", "0", "0", "0", "0", ".", "b", "a", "c", "k", "u", "p", "\n">>,
      <<"N", "o", " ", "b", "a", "c", "k", "u", "p", "s", " ", "f", "o", "u", "n", "d", "\n">>,
      <<>> }

\* stdout of `tmutil listlocalsnapshotdates /`
SnapshotOutputs ==
    { <<"2", "0", "2", "5", "-", "0", "9", "-", "3", "0", "-", "0", "1", "2", "6", "1", "5", "\n", "2", "0", "2", "5", "-", "0", "9", "-", "3", "0", "-", "0", "2", "2", "6", "1", "5", "\n">>,
      <<"2", "0", "2", "5", "-", "0", "9", "-", "3", "0", "-", "0", "2", "2", "6", "1", "5", "\n", "2", "0", "2", "5", "-", "0", "9", "-", "3", "0", "-", "0", "1", "2", "6", "1", "5", "\n">>,
      <<"S", "n", "a", "p", "s", "h", "o", "t", " ", "d", "a", "t", "e", "s", " ", "f", "o", "r", " ", "d", "i", "s", "k", " ", "/", ":", "\n", "2", "0", "2", "5", "-", "0", "9", "-", "2", "9", "-", "2", "3", "5", "9", "5", "9", "\n">>,
      <<"S", "n", "a", "p", "s", "h", "o", "t", " ", "d", "a", "t", "e", "s", " ", "f", "o", "r", " ", "d", "i", "s", "k", " ", "/", ":", "\n">>,
      <<" ", "2", "0", "2", "5", "-", "0", "9", "-", "3", "0", "-", "0", "1", "2", "6", "1", "5", " ", "\n", "n", "o", "t", "e", "\n">>,
      <<"2", "0", "2", "5", "-", "0", "9", "-", "3", "0", "-", "0", "1", "2", "6", "1", "5", "\n", "2", "0", "2", "5", "-", "0", "9", "-", "3", "0", "-", "0", "2", "2", "6", "1", "5", " ", "(", "d", "a", "t", "a", "l", "e", "s", "s", ")", "\n">>,
      <<"2", "0", "2", "5", "-", "0", "9", "-", "3", "0", "-", "0", "1", "2", "6", "1", "5", "\n", "2", "0", "2", "5", "-", "1", "3", "-", "0", "1", "-", "0", "0", "0", "0", "0", "0", "\n">>,
      <<" ", "\n">>,
      <<>> }

BackupResults == {Completed(o) : o \in BackupOutputs} \cup {Faulted(e) : e \in CommandFaults}

SnapshotResults == {Completed(o) : o \in SnapshotOutputs} \cup {Faulted(e) : e \in CommandFaults}

\* `diskutil info <uuid>`: only success or failure is used
DiskutilResults == {Completed(<<" ", " ", " ", "V", "o", "l", "u", "m", "e", " ", "N", "a", "m", "e", ":", " ", "T", "M", "\n">>)} \cup {Faulted(e) : e \in CommandFaults}

\* entries of the mount table: device, mountpoint path, file system
MountEntry(dev, path) == [dev |-> dev, path |-> path, fstype |-> <<"a", "p", "f", "s">>]

RootEntry == MountEntry(<<"/", "d", "e", "v", "/", "d", "i", "s", "k", "1", "s", "1">>, <<"/">>)

\* one line of the mount listing, "<device> on <path> (<fstype>)"
MountLine(e) == e.dev \o <<" ", "o", "n", " ">> \o e.path \o <<" ", "(">> \o e.fstype \o <<")">>

RECURSIVE MountText(_)
MountText(entries) ==
    IF entries = << >> THEN << >>
    ELSE MountLine(Head(entries)) \o <<"\n">> \o MountText(Tail(entries))

\* mount tables around a mountpoint mp: nothing of it, exactly it, longer paths
MountTablesFor(mp) ==
    { << >>,
      <<RootEntry>>,
      <<RootEntry, MountEntry(<<"/", "d", "e", "v", "/", "d", "i", "s", "k", "2">>, mp)>>,
      <<MountEntry(<<"/", "d", "e", "v", "/", "d", "i", "s", "k", "2">>, mp), RootEntry>>,
      <<MountEntry(<<"/", "d", "e", "v", "/", "d", "i", "s", "k", "3">>, mp \o <<"2">>)>>,
      <<MountEntry(<<"/", "d", "e", "v", "/", "d", "i", "s", "k", "3">>, mp \o <<"/", "s", "u", "b">>)>>,
      <<MountEntry(<<"/", "d", "e", "v", "/", "d", "i", "s", "k", "3">>, mp \o <<" ", "2">>)>>,
      <<MountEntry(<<"/", "d", "e", "v", "/", "d", "i", "s", "k", "3">>, mp \o <<"2">>), MountEntry(<<"/", "d", "e", "v", "/", "d", "i", "s", "k", "4">>, mp \o <<"/", "s", "u", "b">>)>> }

MountCompleted(entries) ==
    [raised |-> FALSE, out |-> MountText(entries), err |-> << >>, entries |-> entries]

MountFaulted(e) == [raised |-> TRUE, out |-> << >>, err |-> e, entries |-> << >>]

MountNotRun == [raised |-> FALSE, out |-> NoValue, err |-> << >>, entries |-> << >>]

\* what `/sbin/mount -p` may do when the check looks for mp
MountResults(mp) ==
    {MountCompleted(t) : t \in MountTablesFor(mp)} \cup {MountFaulted(e) : e \in CommandFaults}

-----------------------------------------------------------------------------
(* Python lists and the AgentCheck emission interface *)

InstanceTagsRef == 1

\* a reference no live list has
FreshRef(h) == IF DOMAIN h = {} THEN InstanceTagsRef + 1
               ELSE (CHOOSE r \in DOMAIN h : \A q \in DOMAIN h : q <= r) + 1

\* a new list object holding `contents`
NewList(h, contents) ==
    LET r == FreshRef(h) IN [heap |-> h @@ (r :> contents), ref |-> r]

\* no copy: the very list object x
ListCopy_Alias(h, x) == [heap |-> h, ref |-> x]

\* list(x): a new list object with the elements of the list x
ListCopy(h, x) == NewList(h, h[x])

\* instance.get("tags", []): the configured list object, or a new empty list
GetTags(inst, h) ==
    IF "tags" \in inst.keys THEN [heap |-> h, ref |-> InstanceTagsRef]
    ELSE NewList(h, << >>)

\* x + [item]: a new list object, x is left alone
ListPlus(h, x, item) == NewList(h, Append(h[x], item))

\* lst.append(x), in place
ListAppend(h, r, x) == [h EXCEPT ![r] = Append(h[r], x)]

\* self.gauge(name, value, tags=tags)
Gauge(name, value, tag_list) ==
    [kind |-> "gauge", name |-> name, value |-> value, status |-> "",
     message |-> << >>, tags |-> tag_list]

\* self.service_check(name, status, message=message, tags=tags)
ServiceCheck(name, status, message, tag_list) ==
    [kind |-> "service_check", name |-> name, value |-> 0, status |-> status,
     message |-> message, tags |-> tag_list]

\* a check that forgets its heartbeat
EmitHeartbeat_Skipped(log, name, tag_list) == log

\* the heartbeat gauge that opens an invocation (always 1)
EmitHeartbeat(log, name, tag_list) == Append(log, Gauge(name, 1, tag_list))

\* what a step of the freshness check hands back: the service check it sent
\* and the value it returned
StepOk(age) == [status |-> "OK", message |-> << >>, ret |-> age]

\* a step that reports CRITICAL but returns 0 instead of the sentinel
StepCritical_ZeroOnError(e) == [status |-> "CRITICAL", message |-> e, ret |-> 0]

StepCritical(e) == [status |-> "CRITICAL", message |-> e, ret |-> -1]

-----------------------------------------------------------------------------
(* Helloworld2TimeMachineLatestBackup *)

\* _get_latest_backup_age(tags, now), given what the command did
GetLatestBackupAge(cmd, t_now) ==
    IF cmd.raised THEN StepCritical(cmd.err)
    ELSE LET out == Strip(cmd.out)
             ts  == ReSearch(TM_TS_RE, out)
         IN  IF ts = NoValue
             THEN StepCritical(
                     <<"Could not find a Time Machine timestamp in output: ">> \o out)
             ELSE LET backup_dt == Strptime(ts)
                  IN  IF ~backup_dt.ok THEN StepCritical(backup_dt.err)
                      ELSE StepOk(AgeSeconds(t_now, backup_dt.dt))

\* line 108: the trimmed lines that start with the timestamp pattern, in order
RECURSIVE FilterTimestamps(_)
FilterTimestamps(lines) ==
    IF lines = << >> THEN << >>
    ELSE (IF ReMatch(SNAPSHOT_TS_RE, Strip(Head(lines))) THEN <<Strip(Head(lines))>>
          ELSE << >>) \o FilterTimestamps(Tail(lines))

\* the first kept line taken for the most recent one
LatestTimestamp_First(timestamps) == timestamps[1]

\* line 114: timestamps[-1]
LatestTimestamp(timestamps) == timestamps[Len(timestamps)]

\* _get_latest_snapshot_age(tags, now), given what the command did
GetLatestSnapshotAge(cmd, t_now) ==
    IF cmd.raised THEN StepCritical(cmd.err)
    ELSE LET out == Strip(cmd.out)
         IN  IF out = << >> THEN StepCritical(<<"No local snapshots found">>)
             ELSE LET lines      == Split(Strip(out), "\n")
                      timestamps == FilterTimestamps(lines)
                  IN  IF timestamps = << >>
                      THEN StepCritical(<<"No valid timestamps in local snapshots output">>)
                      ELSE LET snapshot_dt == Strptime(LatestTimestamp(timestamps))
                           IN  IF ~snapshot_dt.ok THEN StepCritical(snapshot_dt.err)
                               ELSE StepOk(AgeSeconds(t_now, snapshot_dt.dt))

\* the instant the age computations of check() use (line 37 captures it once)
BackupNow == now

\* the snapshot step reading the clock again
SnapshotNow_ReadAgain == clock

SnapshotNow == now

Init ==
    /\ pc = "idle"
    /\ instance \in Configurations
    /\ heap = IF "tags" \in instance.keys THEN (InstanceTagsRef :> instance.tags)
              ELSE << >>
    /\ tags = InstanceTagsRef
    /\ emitted = << >>
    /\ clock = RefTime
    /\ now = RefTime
    /\ backup_cmd = NotRun
    /\ snapshot_cmd = NotRun
    /\ latest_backup_seconds = -1
    /\ latest_snapshot_seconds = -1
    /\ volume_uuid = NoValue
    /\ diskutil_cmd = NotRun
    /\ mountpoint = NoValue
    /\ path_exists = FALSE
    /\ mount_cmd = MountNotRun
    /\ is_mounted = 0
    /\ mounted = 0
    /\ runs = 0

\* what is left of the previous invocation when the agent calls check() again:
\* the instance mapping and the list object it holds; locals are gone
LiveHeap == [r \in DOMAIN heap \cap {InstanceTagsRef} |-> heap[r]]

\* the agent's scheduler starts one more invocation
Started(n) == IF n < MaxRuns THEN n + 1 ELSE n

Between == pc \in {"idle", "latest_backup_done", "uuid_mount_done", "path_mount_done"}

\* check(), lines 31-37: copy the tags, heartbeat, capture now
LatestBackup_Begin ==
    /\ Between
    /\ \E t \in ClockStarts :
          LET got  == GetTags(instance, LiveHeap)
              copy == ListCopy(got.heap, got.ref)
          IN  /\ heap' = copy.heap
              /\ tags' = copy.ref
              /\ emitted' = EmitHeartbeat(<< >>,
                                "helloworld2.timemachine.latest_backup_heartbeat",
                                copy.heap[copy.ref])
              /\ clock' = t
              /\ now' = t
    /\ pc' = "backup_age"
    /\ backup_cmd' = NotRun
    /\ snapshot_cmd' = NotRun
    /\ latest_backup_seconds' = -1
    /\ latest_snapshot_seconds' = -1
    /\ volume_uuid' = NoValue
    /\ diskutil_cmd' = NotRun
    /\ mountpoint' = NoValue
    /\ path_exists' = FALSE
    /\ mount_cmd' = MountNotRun
    /\ is_mounted' = 0
    /\ mounted' = 0
    /\ runs' = Started(runs)
    /\ UNCHANGED instance

\* check(), lines 40-41: _get_latest_backup_age(tags, now) (lines 47-81), which
\* sends the backup service check, then the backup gauge with what it returned
LatestBackup_BackupAge ==
    /\ pc = "backup_age"
    /\ \E cmd \in BackupResults, d \in 0..MaxCmdDelay :
          LET r == GetLatestBackupAge(cmd, BackupNow)
          IN  /\ backup_cmd' = cmd
              /\ clock' = ClockAfter(clock, d)
              /\ latest_backup_seconds' = r.ret
              /\ emitted' = emitted \o
                     <<ServiceCheck("helloworld2.timemachine.latest_backup",
                                    r.status, r.message, heap[tags]),
                       Gauge("helloworld2.timemachine.latest_backup_seconds",
                             r.ret, heap[tags])>>
    /\ pc' = "snapshot_age"
    /\ UNCHANGED <<runs, instance, heap, tags, now, snapshot_cmd, latest_snapshot_seconds,
                   volume_uuid, diskutil_cmd, mountpoint, path_exists, mount_cmd,
                   is_mounted, mounted>>

\* check(), lines 44-45: _get_latest_snapshot_age(tags, now) (lines 83-131), which
\* sends the snapshot service check, then the snapshot gauge, and the return to
\* the agent (nothing reads the clock after this command: its duration is left out)
LatestBackup_SnapshotAge ==
    /\ pc = "snapshot_age"
    /\ \E cmd \in SnapshotResults :
          LET r == GetLatestSnapshotAge(cmd, SnapshotNow)
          IN  /\ snapshot_cmd' = cmd
              /\ latest_snapshot_seconds' = r.ret
              /\ emitted' = emitted \o
                     <<ServiceCheck("helloworld2.timemachine.latest_snapshot",
                                    r.status, r.message, heap[tags]),
                       Gauge("helloworld2.timemachine.latest_snapshot_seconds",
                             r.ret, heap[tags])>>
    /\ pc' = "latest_backup_done"
    /\ UNCHANGED <<runs, instance, heap, tags, clock, now, backup_cmd, latest_backup_seconds,
                   volume_uuid, diskutil_cmd, mountpoint, path_exists, mount_cmd,
                   is_mounted, mounted>>

-----------------------------------------------------------------------------
(* Helloworld2TimeMachineMount *)

\* the message without the error text
DiskutilFailedMessage_NoError(uuid, e) == <<"diskutil info failed for UUID ">> \o uuid

\* line 33: f"diskutil info failed for UUID {volume_uuid}: {e}"
DiskutilFailedMessage(uuid, e) ==
    <<"diskutil info failed for UUID ">> \o uuid \o <<": ">> \o e

\* line 42-43: the service check that mirrors `mounted`
MountedStatus(m) == IF m = 1 THEN "OK" ELSE "CRITICAL"

MountedMessage(m) ==
    IF m = 1 THEN <<"Time Machine disk is mounted">>
    ELSE <<"Time Machine disk is NOT mounted">>

\* check(), lines 9-17: the UUID, the tags with the derived tag, heartbeat
UuidMount_Begin ==
    /\ Between
    /\ LET uuid == IF "volume_uuid" \in instance.keys THEN instance.volume_uuid
                   ELSE DefaultVolumeUuid
           got  == GetTags(instance, LiveHeap)
           copy == ListCopy(got.heap, got.ref)
           h    == ListAppend(copy.heap, copy.ref, <<"volume_uuid:">> \o uuid)
       IN  /\ volume_uuid' = uuid
           /\ heap' = h
           /\ tags' = copy.ref
           /\ emitted' = EmitHeartbeat(<< >>, "helloworld2.timemachine.heartbeat",
                                      h[copy.ref])
    /\ mounted' = 0
    /\ pc' = "diskutil_info"
    /\ backup_cmd' = NotRun
    /\ snapshot_cmd' = NotRun
    /\ latest_backup_seconds' = -1
    /\ latest_snapshot_seconds' = -1
    /\ diskutil_cmd' = NotRun
    /\ mountpoint' = NoValue
    /\ path_exists' = FALSE
    /\ mount_cmd' = MountNotRun
    /\ is_mounted' = 0
    /\ runs' = Started(runs)
    /\ UNCHANGED <<instance, clock, now>>

\* check(), lines 21-36: the diskutil query and its except branch
UuidMount_DiskutilInfo ==
    /\ pc = "diskutil_info"
    /\ \E cmd \in DiskutilResults :
          /\ diskutil_cmd' = cmd
          /\ IF cmd.raised
             THEN /\ emitted' = Append(emitted,
                        ServiceCheck("helloworld2.timemachine.mount.check", "CRITICAL",
                                     DiskutilFailedMessage(volume_uuid, cmd.err),
                                     heap[tags]))
                  /\ mounted' = 0
             ELSE /\ emitted' = emitted
                  /\ mounted' = 1
    /\ pc' = "uuid_gauge"
    /\ UNCHANGED <<runs, instance, heap, tags, clock, now, backup_cmd, snapshot_cmd,
                   latest_backup_seconds, latest_snapshot_seconds, volume_uuid,
                   mountpoint, path_exists, mount_cmd, is_mounted>>

\* check(), line 39
UuidMount_Gauge ==
    /\ pc = "uuid_gauge"
    /\ emitted' = Append(emitted,
           Gauge("helloworld2.timemachine.disk_mounted", mounted, heap[tags]))
    /\ pc' = "uuid_service_check"
    /\ UNCHANGED <<runs, instance, heap, tags, clock, now, backup_cmd, snapshot_cmd,
                   latest_backup_seconds, latest_snapshot_seconds, volume_uuid,
                   diskutil_cmd, mountpoint, path_exists, mount_cmd, is_mounted, mounted>>

\* check(), lines 42-44, and the return to the agent
UuidMount_ServiceCheck ==
    /\ pc = "uuid_service_check"
    /\ emitted' = Append(emitted,
           ServiceCheck("helloworld2.timemachine.disk.mounted", MountedStatus(mounted),
                        MountedMessage(mounted), heap[tags]))
    /\ pc' = "uuid_mount_done"
    /\ UNCHANGED <<runs, instance, heap, tags, clock, now, backup_cmd, snapshot_cmd,
                   latest_backup_seconds, latest_snapshot_seconds, volume_uuid,
                   diskutil_cmd, mountpoint, path_exists, mount_cmd, is_mounted, mounted>>

-----------------------------------------------------------------------------
(* TimeMachineMountCheck *)

\* line 21: f" {mountpoint} " in f" {line} "
LineMatches(mp, line) == Contains(<<" ">> \o line \o <<" ">>, <<" ">> \o mp \o <<" ">>)

\* lines 16-23: the loop over out.splitlines(), leaving is_mounted
RECURSIVE ScanLines(_, _)
ScanLines(mp, lines) ==
    IF lines = << >> THEN 0
    ELSE IF LineMatches(mp, Head(lines)) THEN 1
         ELSE ScanLines(mp, Tail(lines))

\* either signal alone taken for "mounted"
MountedValue_EitherSignal(exists, in_table) == IF exists \/ in_table # 0 THEN 1 ELSE 0

\* line 30: 1 if (path_exists and is_mounted) else 0
MountedValue(exists, in_table) == IF exists /\ in_table # 0 THEN 1 ELSE 0

\* the except branch without its return
MountQueryFailed_NoReturn(e, tag_list) ==
    [emit |-> <<ServiceCheck("timemachine.mount.check", "CRITICAL", e, tag_list)>>,
     pc   |-> "path_gauge"]

\* lines 24-27: the except branch sends one service check and returns
MountQueryFailed(e, tag_list) ==
    [emit |-> <<ServiceCheck("timemachine.mount.check", "CRITICAL", e, tag_list)>>,
     pc   |-> "path_mount_done"]

\* check(), lines 8-16: the mountpoint, the tags with the derived tag, isdir
PathMount_Begin ==
    /\ Between
    /\ \E exists \in BOOLEAN :
          LET mp   == IF "mountpoint" \in instance.keys THEN instance.mountpoint
                      ELSE DefaultMountpoint
              got  == GetTags(instance, LiveHeap)
              copy == ListCopy(got.heap, got.ref)
              plus == ListPlus(copy.heap, copy.ref, <<"mountpoint:">> \o mp)
          IN  /\ mountpoint' = mp
              /\ heap' = plus.heap
              /\ tags' = plus.ref
              /\ path_exists' = exists
    /\ is_mounted' = 0
    /\ emitted' = << >>
    /\ pc' = "mount_table"
    /\ backup_cmd' = NotRun
    /\ snapshot_cmd' = NotRun
    /\ latest_backup_seconds' = -1
    /\ latest_snapshot_seconds' = -1
    /\ volume_uuid' = NoValue
    /\ diskutil_cmd' = NotRun
    /\ mount_cmd' = MountNotRun
    /\ mounted' = 0
    /\ runs' = Started(runs)
    /\ UNCHANGED <<instance, clock, now>>

\* check(), lines 17-27: the mount table query, the scan, the except branch
PathMount_MountTable ==
    /\ pc = "mount_table"
    /\ \E cmd \in MountResults(mountpoint) :
          /\ mount_cmd' = cmd
          /\ IF cmd.raised
             THEN LET f == MountQueryFailed(cmd.err, heap[tags])
                  IN  /\ emitted' = emitted \o f.emit
                      /\ pc' = f.pc
                      /\ is_mounted' = is_mounted
             ELSE /\ is_mounted' = ScanLines(mountpoint, SplitLines(cmd.out))
                  /\ emitted' = emitted
                  /\ pc' = "path_gauge"
    /\ UNCHANGED <<runs, instance, heap, tags, clock, now, backup_cmd, snapshot_cmd,
                   latest_backup_seconds, latest_snapshot_seconds, volume_uuid,
                   diskutil_cmd, mountpoint, path_exists, mounted>>

\* check(), lines 30-33
PathMount_Gauge ==
    /\ pc = "path_gauge"
    /\ mounted' = MountedValue(path_exists, is_mounted)
    /\ emitted' = Append(emitted, Gauge("timemachine.disk_mounted", mounted', heap[tags]))
    /\ pc' = "path_service_check"
    /\ UNCHANGED <<runs, instance, heap, tags, clock, now, backup_cmd, snapshot_cmd,
                   latest_backup_seconds, latest_snapshot_seconds, volume_uuid,
                   diskutil_cmd, mountpoint, path_exists, mount_cmd, is_mounted>>

\* check(), lines 36-38, and the return to the agent
PathMount_ServiceCheck ==
    /\ pc = "path_service_check"
    /\ emitted' = Append(emitted,
           ServiceCheck("timemachine.disk.mounted", MountedStatus(mounted),
                        MountedMessage(mounted), heap[tags]))
    /\ pc' = "path_mount_done"
    /\ UNCHANGED <<runs, instance, heap, tags, clock, now, backup_cmd, snapshot_cmd,
                   latest_backup_seconds, latest_snapshot_seconds, volume_uuid,
                   diskutil_cmd, mountpoint, path_exists, mount_cmd, is_mounted, mounted>>

-----------------------------------------------------------------------------
Next ==
    \/ LatestBackup_Begin
    \/ LatestBackup_BackupAge
    \/ LatestBackup_SnapshotAge
    \/ UuidMount_Begin
    \/ UuidMount_DiskutilInfo
    \/ UuidMount_Gauge
    \/ UuidMount_ServiceCheck
    \/ PathMount_Begin
    \/ PathMount_MountTable
    \/ PathMount_Gauge
    \/ PathMount_ServiceCheck

Spec == Init /\ [][Next]_vars

-----------------------------------------------------------------------------
(* Properties *)

EmittedNamed(kind, name) ==
    SelectSeq(emitted, LAMBDA e : e.kind = kind /\ e.name = name)

\* positions of the emissions with this kind and name
PositionsOf(kind, name) ==
    {i \in 1..Len(emitted) : emitted[i].kind = kind /\ emitted[i].name = name}

InLatestBackup ==
    pc \in {"backup_age", "snapshot_age", "latest_backup_done"}

InUuidMount == pc \in {"diskutil_info", "uuid_gauge", "uuid_service_check", "uuid_mount_done"}

InPathMount == pc \in {"mount_table", "path_gauge", "path_service_check", "path_mount_done"}

IsBlank(text) == \A i \in 1..Len(text) : IsSpace(text[i])

HasTimestampPattern(text) == \E i \in 1..Len(text) : MatchesAt(TM_TS_RE, text, i)

\* seconds of a datetime since the start of the reference day
SecondsSinceRef(t) == (t.ord - RefTime.ord) * SecondsPerDay + t.sec

\* floor(now - T) for now >= T and 0 for now < T; T has no fraction of a second
ExpectedAge(t_now, t_then) ==
    IF SecondsSinceRef(t_now) >= SecondsSinceRef(t_then)
    THEN SecondsSinceRef(t_now) - SecondsSinceRef(t_then)
    ELSE 0

\* one step of a finished freshness invocation: its status and its gauge
StepReport(status_name, gauge_name, cmd) ==
    LET sc == EmittedNamed("service_check", status_name)
        g  == EmittedNamed("gauge", gauge_name)
    IN  /\ Len(sc) = 1
        /\ Len(g) = 1
        /\ sc[1].status \in {"OK", "CRITICAL"}
        /\ (g[1].value = -1) <=> (sc[1].status = "CRITICAL")
        /\ sc[1].status = "OK" => g[1].value >= 0
        /\ sc[1].status = "CRITICAL" => sc[1].message # << >>
        /\ cmd.raised => sc[1].status = "CRITICAL" /\ sc[1].message = cmd.err
        /\ (~cmd.raised /\ ~HasTimestampPattern(cmd.out)) => sc[1].status = "CRITICAL"
        /\ \A i \in PositionsOf("service_check", status_name) :
              \A j \in PositionsOf("gauge", gauge_name) : i < j

\* C1: in every freshness invocation each step (backup, snapshot) emits its
\* gauge exactly once, whatever its command did; the gauge is -1 exactly when
\* the step's status is CRITICAL (with the error text as message) and is >= 0
\* when the status is OK; a command fault or an output without a timestamp is
\* such an error, and the invocation still runs to its end.
C1_GaugePerStep ==
    /\ InLatestBackup =>
          /\ Cardinality(PositionsOf("gauge",
                 "helloworld2.timemachine.latest_backup_seconds")) <= 1
          /\ Cardinality(PositionsOf("gauge",
                 "helloworld2.timemachine.latest_snapshot_seconds")) <= 1
    /\ pc = "latest_backup_done" =>
          /\ StepReport("helloworld2.timemachine.latest_backup",
                        "helloworld2.timemachine.latest_backup_seconds", backup_cmd)
          /\ StepReport("helloworld2.timemachine.latest_snapshot",
                        "helloworld2.timemachine.latest_snapshot_seconds", snapshot_cmd)

\* a finished invocation whose backup command faulted and whose snapshot step succeeded
C1_Witness ==
    /\ pc = "latest_backup_done"
    /\ backup_cmd.raised
    /\ emitted[3].value = -1
    /\ emitted[4].status = "OK"
    /\ emitted[5].value > 0

\* C2: in the freshness check and in the UUID mount check the heartbeat gauge
\* is emitted exactly once, with value 1, before every other gauge and status,
\* whatever the commands do; with a blank snapshot listing the invocation
\* emits heartbeat = 1, later the CRITICAL snapshot status, then the gauge -1.
C2_HeartbeatFirst ==
    /\ InLatestBackup =>
          /\ Len(emitted) >= 1
          /\ emitted[1].kind = "gauge"
          /\ emitted[1].value = 1
          /\ PositionsOf("gauge", "helloworld2.timemachine.latest_backup_heartbeat") = {1}
    /\ InUuidMount =>
          /\ Len(emitted) >= 1
          /\ emitted[1].kind = "gauge"
          /\ emitted[1].value = 1
          /\ PositionsOf("gauge", "helloworld2.timemachine.heartbeat") = {1}
    /\ (pc = "latest_backup_done" /\ ~snapshot_cmd.raised /\ IsBlank(snapshot_cmd.out)) =>
          /\ emitted[Len(emitted) - 1].kind = "service_check"
          /\ emitted[Len(emitted) - 1].status = "CRITICAL"
          /\ emitted[Len(emitted)].kind = "gauge"
          /\ emitted[Len(emitted)].value = -1
          /\ Len(emitted) > 2

\* a finished freshness invocation with a blank snapshot listing
C2_Witness ==
    /\ pc = "latest_backup_done"
    /\ ~snapshot_cmd.raised
    /\ IsBlank(snapshot_cmd.out)
    /\ emitted[1].name = "helloworld2.timemachine.latest_backup_heartbeat"

\* the timestamp a step read from its command output, when the step reported OK
BackupTimestamp == Strptime(ReSearch(TM_TS_RE, Strip(backup_cmd.out))).dt

SnapshotLines == Split(Strip(snapshot_cmd.out), "\n")

\* the lines of the snapshot listing that start with the timestamp pattern
SnapshotKept == {i \in 1..Len(SnapshotLines) : ReMatch(SNAPSHOT_TS_RE, Strip(SnapshotLines[i]))}

SnapshotLastKept ==
    Strip(SnapshotLines[CHOOSE i \in SnapshotKept : \A j \in SnapshotKept : j <= i])

BackupStatus == EmittedNamed("service_check", "helloworld2.timemachine.latest_backup")

SnapshotStatus == EmittedNamed("service_check", "helloworld2.timemachine.latest_snapshot")

BackupGauge == EmittedNamed("gauge", "helloworld2.timemachine.latest_backup_seconds")

SnapshotGauge == EmittedNamed("gauge", "helloworld2.timemachine.latest_snapshot_seconds")

\* C3: whenever a step reports OK for a timestamp T, the age it reports is
\* floor(now - T) seconds if now >= T and exactly 0 if now < T, so it is never
\* negative; this holds in the backup step and in the snapshot step.
C3_AgeClamped ==
    pc = "latest_backup_done" =>
        /\ BackupStatus[1].status = "OK" =>
              /\ BackupGauge[1].value = ExpectedAge(now, BackupTimestamp)
              /\ BackupGauge[1].value >= 0
        /\ SnapshotStatus[1].status = "OK" =>
              /\ SnapshotGauge[1].value = ExpectedAge(now, Strptime(SnapshotLastKept).dt)
              /\ SnapshotGauge[1].value >= 0

\* a backup stamped after `now` (clock skew, age 0) and a snapshot stamped before it
C3_Witness ==
    /\ pc = "latest_backup_done"
    /\ BackupStatus[1].status = "OK"
    /\ SecondsSinceRef(now) < SecondsSinceRef(BackupTimestamp)
    /\ BackupGauge[1].value = 0
    /\ SnapshotStatus[1].status = "OK"
    /\ SnapshotGauge[1].value > 0

\* C4 as claimed: for a non-blank snapshot listing, lines that do not start
\* with the timestamp pattern are ignored; with no line left the step is
\* CRITICAL with gauge -1, and otherwise the step always reports OK with the
\* age of the last remaining line.
C4_LastLineAlwaysOk ==
    (pc = "latest_backup_done" /\ ~snapshot_cmd.raised /\ ~IsBlank(snapshot_cmd.out)) =>
        IF SnapshotKept = {}
        THEN SnapshotStatus[1].status = "CRITICAL" /\ SnapshotGauge[1].value = -1
        ELSE SnapshotStatus[1].status = "OK" /\ SnapshotGauge[1].value >= 0

\* the whole text is one well-formed timestamp of an existing date and time
IsValidTimestamp(text) == Len(text) = Len(SNAPSHOT_TS_RE) /\ Strptime(text).ok

\* C4 (amended): for a non-blank snapshot listing, lines whose trimmed content
\* does not start with the timestamp pattern are ignored; with no line left the
\* step is CRITICAL with gauge -1; otherwise the step takes the last remaining
\* line in the original order and reports OK with the age of its timestamp if
\* that whole line is a valid timestamp, and CRITICAL with gauge -1 if it is not.
C4_LastLineDecides ==
    (pc = "latest_backup_done" /\ ~snapshot_cmd.raised /\ ~IsBlank(snapshot_cmd.out)) =>
        IF SnapshotKept = {}
        THEN SnapshotStatus[1].status = "CRITICAL" /\ SnapshotGauge[1].value = -1
        ELSE IF IsValidTimestamp(SnapshotLastKept)
             THEN /\ SnapshotStatus[1].status = "OK"
                  /\ SnapshotGauge[1].value = ExpectedAge(now, Strptime(SnapshotLastKept).dt)
             ELSE SnapshotStatus[1].status = "CRITICAL" /\ SnapshotGauge[1].value = -1

\* a listing of two timestamps whose last line is the older one and is the one taken
C4_Witness ==
    /\ pc = "latest_backup_done"
    /\ ~snapshot_cmd.raised
    /\ Cardinality(SnapshotKept) = 2
    /\ SnapshotKept = 1..Len(SnapshotLines)
    /\ SnapshotStatus[1].status = "OK"
    /\ SnapshotGauge[1].value > 0

\* C5: the UUID mount check never aborts.  If the disk-info query succeeds it
\* emits heartbeat, disk_mounted = 1, then disk.mounted OK; if the query raises
\* it emits heartbeat, a CRITICAL mount.check status whose message holds the
\* error, disk_mounted = 0, then disk.mounted CRITICAL with the fixed NOT
\* mounted message.  The gauge and the final status are emitted exactly once.
C5_UuidMountReports ==
    /\ InUuidMount =>
          /\ Cardinality(PositionsOf("gauge", "helloworld2.timemachine.disk_mounted")) <= 1
          /\ Cardinality(PositionsOf("service_check",
                 "helloworld2.timemachine.disk.mounted")) <= 1
    /\ (pc = "uuid_mount_done" /\ ~diskutil_cmd.raised) =>
          /\ Len(emitted) = 3
          /\ emitted[2].kind = "gauge"
          /\ emitted[2].name = "helloworld2.timemachine.disk_mounted"
          /\ emitted[2].value = 1
          /\ emitted[3].kind = "service_check"
          /\ emitted[3].name = "helloworld2.timemachine.disk.mounted"
          /\ emitted[3].status = "OK"
    /\ (pc = "uuid_mount_done" /\ diskutil_cmd.raised) =>
          /\ Len(emitted) = 4
          /\ emitted[2].kind = "service_check"
          /\ emitted[2].name = "helloworld2.timemachine.mount.check"
          /\ emitted[2].status = "CRITICAL"
          /\ Contains(emitted[2].message, diskutil_cmd.err)
          /\ emitted[3].kind = "gauge"
          /\ emitted[3].name = "helloworld2.timemachine.disk_mounted"
          /\ emitted[3].value = 0
          /\ emitted[4].kind = "service_check"
          /\ emitted[4].name = "helloworld2.timemachine.disk.mounted"
          /\ emitted[4].status = "CRITICAL"
          /\ emitted[4].message = <<"Time Machine disk is NOT mounted">>

\* a finished UUID mount check whose disk-info query raised
C5_Witness ==
    /\ pc = "uuid_mount_done"
    /\ diskutil_cmd.raised
    /\ emitted[3].value = 0

\* some line of the mount table names the mountpoint the way line 21 looks for it
SomeLineMatches ==
    \E i \in 1..Len(mount_cmd.entries) :
        LineMatches(mountpoint, MountLine(mount_cmd.entries[i]))

\* C6: when the mount-table command runs, the mountpoint check emits the gauge
\* timemachine.disk_mounted and the status timemachine.disk.mounted exactly
\* once each; the gauge is 1 iff the path exists as a directory AND some
\* mount-table line matches the mountpoint, else 0; the status is OK iff the
\* gauge is 1.
C6_BothSignals ==
    (pc = "path_mount_done" /\ ~mount_cmd.raised) =>
        /\ Len(emitted) = 2
        /\ emitted[1].kind = "gauge"
        /\ emitted[1].name = "timemachine.disk_mounted"
        /\ emitted[1].value \in {0, 1}
        /\ (emitted[1].value = 1) <=> (path_exists /\ SomeLineMatches)
        /\ emitted[2].kind = "service_check"
        /\ emitted[2].name = "timemachine.disk.mounted"
        /\ (emitted[2].status = "OK") <=> (emitted[1].value = 1)
        /\ emitted[2].status \in {"OK", "CRITICAL"}

\* the mount table lists the mountpoint but the path is no directory: gauge 0
C6_Witness ==
    /\ pc = "path_mount_done"
    /\ ~mount_cmd.raised
    /\ ~path_exists
    /\ SomeLineMatches
    /\ emitted[1].value = 0

\* C7: if the mount-table command raises, the invocation emits exactly one
\* thing, a CRITICAL status on timemachine.mount.check with the error text, and
\* neither the gauge nor the mounted status, whatever the path check returned;
\* when the command runs, timemachine.mount.check is never emitted.
C7_QueryFailureOnly ==
    /\ (pc = "path_mount_done" /\ mount_cmd.raised) =>
          /\ Len(emitted) = 1
          /\ emitted[1].kind = "service_check"
          /\ emitted[1].name = "timemachine.mount.check"
          /\ emitted[1].status = "CRITICAL"
          /\ emitted[1].message = mount_cmd.err
    /\ (InPathMount /\ mount_cmd.raised) => pc = "path_mount_done"
    /\ (InPathMount /\ ~mount_cmd.raised) =>
          PositionsOf("service_check", "timemachine.mount.check") = {}

\* the mount-table command raised although the path exists
C7_Witness ==
    /\ pc = "path_mount_done"
    /\ mount_cmd.raised
    /\ path_exists
    /\ Len(emitted) = 1

IsProperPrefix(p, text) == Len(p) < Len(text) /\ SubSeq(text, 1, Len(p)) = p

\* C8: a mount table whose only entries are mounted at longer paths that have
\* the configured mountpoint as a proper prefix matches on no line, so the
\* reported mounted value is 0 (also when the path exists as a directory).
C8_LongerPathsNeverMatch ==
    ( /\ pc = "path_mount_done"
      /\ ~mount_cmd.raised
      /\ mount_cmd.entries # << >>
      /\ \A i \in 1..Len(mount_cmd.entries) :
            IsProperPrefix(mountpoint, mount_cmd.entries[i].path) )
    => emitted[1].value = 0

ConfiguredTags == IF "tags" \in instance.keys THEN instance.tags ELSE << >>

\* C9: a freshness invocation emits exactly five things in the order heartbeat
\* gauge, backup status, backup gauge, snapshot status, snapshot gauge; each
\* step's status and value depend only on that step's command result and on
\* the one `now` of the invocation (not on the other step, not on the time
\* the commands took).
C9_StepsIndependent ==
    pc = "latest_backup_done" =>
        /\ [i \in 1..Len(emitted) |-> <<emitted[i].kind, emitted[i].name>>] =
              << <<"gauge", "helloworld2.timemachine.latest_backup_heartbeat">>,
                 <<"service_check", "helloworld2.timemachine.latest_backup">>,
                 <<"gauge", "helloworld2.timemachine.latest_backup_seconds">>,
                 <<"service_check", "helloworld2.timemachine.latest_snapshot">>,
                 <<"gauge", "helloworld2.timemachine.latest_snapshot_seconds">> >>
        /\ emitted[2].status = GetLatestBackupAge(backup_cmd, now).status
        /\ emitted[3].value = GetLatestBackupAge(backup_cmd, now).ret
        /\ emitted[4].status = GetLatestSnapshotAge(snapshot_cmd, now).status
        /\ emitted[5].value = GetLatestSnapshotAge(snapshot_cmd, now).ret
        /\ emitted[2].status = "OK" => emitted[3].value = ExpectedAge(now, BackupTimestamp)
        /\ emitted[4].status = "OK" =>
              emitted[5].value = ExpectedAge(now, Strptime(SnapshotLastKept).dt)
        /\ \A i \in 1..Len(emitted) : emitted[i].tags = ConfiguredTags

\* the backup step failed, the snapshot step succeeded, and time passed meanwhile
C9_Witness ==
    /\ pc = "latest_backup_done"
    /\ emitted[2].status = "CRITICAL"
    /\ emitted[4].status = "OK"
    /\ emitted[5].value > 0
    /\ clock # now

\* C10: the mount checks leave the configured tags list as configured, and
\* every gauge and status of every invocation, also of a later one, carries
\* the configured tags followed by exactly one derived tag (volume_uuid:<uuid>
\* or mountpoint:<path>).
C10_TagsNotAccumulated ==
    /\ "tags" \in instance.keys => heap[InstanceTagsRef] = instance.tags
    /\ InUuidMount =>
          \A i \in 1..Len(emitted) :
              emitted[i].tags =
                  Append(ConfiguredTags,
                         <<"volume_uuid:">> \o
                         (IF "volume_uuid" \in instance.keys THEN instance.volume_uuid
                          ELSE DefaultVolumeUuid))
    /\ InPathMount =>
          \A i \in 1..Len(emitted) :
              emitted[i].tags =
                  Append(ConfiguredTags,
                         <<"mountpoint:">> \o
                         (IF "mountpoint" \in instance.keys THEN instance.mountpoint
                          ELSE DefaultMountpoint))

\* a second (or later) invocation, of the UUID check, with tags configured
C10_Witness ==
    /\ runs >= 2
    /\ pc = "uuid_mount_done"
    /\ instance.tags # << >>
    /\ Len(emitted[Len(emitted)].tags) = Len(instance.tags) + 1

====
